---- MODULE Spec2Model ----
(***************************************************************************)
(* apnrs (src/src/lib.rs): send_push_notification, the serde encoding of   *)
(* ApnsPayload / Aps / Claims, and the bearer token built for each send.   *)
(*                                                                         *)
(* Text.  A Rust String is a sequence of pieces.  Every character that the *)
(* JSON writer or reader treats specially (the double quote, the           *)
(* backslash, a control character, a digit of a number, and the            *)
(* punctuation { } : , of a document) is a piece of its own; a run of      *)
(* ordinary characters is one piece.  Numbers are kept within 32 bits.     *)
(***************************************************************************)
EXTENDS Integers, Sequences, FiniteSets, TLC

\* ------------------------------------------------------------------ bounds
MaxCalls == 2      \* call slots: sends that can be in progress together
MaxSends == 2      \* sends started in one behaviour
MaxClock == 2      \* the clock stops advancing after this many ticks
TicksPerSec == 2   \* clock ticks in one second (sub-second resolution)

\* ------------------------------------------------------------- Rust values
None == [some |-> FALSE]
Some(v) == [some |-> TRUE, v |-> v]

\* ------------------------------------------------------------- JSON values
JNull == [t |-> "null"]
JNum(n) == [t |-> "num", n |-> n]
JStr(s) == [t |-> "str", s |-> s]
JObj(m) == [t |-> "obj", m |-> m]

\* ---------------------------------------------------- serde_json writer
DigitChar == <<"0", "1", "2", "3", "4", "5", "6", "7", "8", "9">>

\* itoa: an unsigned integer in decimal, most significant digit first.
RECURSIVE Digits(_)
Digits(n) ==
    IF n < 10 THEN <<DigitChar[n + 1]>>
    ELSE Digits(n \div 10) \o <<DigitChar[(n % 10) + 1]>>

\* serde_json's escape of one piece of a string.
EscapePiece(p) ==
    CASE p = "\"" -> <<"\\", "\"">>
      [] p = "\\" -> <<"\\", "\\">>
      [] p = "\n" -> <<"\\", "n">>
      [] OTHER -> <<p>>

RECURSIVE Escape(_)
Escape(s) == IF s = <<>> THEN <<>> ELSE EscapePiece(Head(s)) \o Escape(Tail(s))

WriteString(s) == <<"\"">> \o Escape(s) \o <<"\"">>

\* serde_json::to_string of a value: compact, members in the order given.
RECURSIVE WriteValue(_)
RECURSIVE WriteMembers(_)
WriteValue(v) ==
    CASE v.t = "null" -> <<"null">>
      [] v.t = "num" -> Digits(v.n)
      [] v.t = "str" -> WriteString(v.s)
      [] v.t = "obj" -> <<"{">> \o WriteMembers(v.m) \o <<"}">>
WriteMembers(m) ==
    IF m = <<>> THEN <<>>
    ELSE WriteString(m[1].k) \o <<":">> \o WriteValue(m[1].v)
         \o (IF Len(m) > 1 THEN <<",">> \o WriteMembers(Tail(m)) ELSE <<>>)

\* ------------------------------------------------- derive(Serialize)
\* A struct field as serde sees it: the Rust name and the rename attribute.
Field(name, rename) == [name |-> name, rename |-> rename]

\* the key serde writes for a field
WireName(f) == IF f.rename.some THEN f.rename.v ELSE <<f.name>>

\* a slip: None written as the type's default value, not as null
SerializeOption_default(o, tag) ==
    IF o.some THEN [t |-> tag] @@ (IF tag = "num" THEN [n |-> o.v] ELSE [s |-> o.v])
    ELSE IF tag = "num" THEN JNum(0) ELSE JStr(<<>>)

\* Option<T>: None is written as null (no skip_serializing_if on the fields).
SerializeOption(o, tag) ==
    IF o.some THEN [t |-> tag] @@ (IF tag = "num" THEN [n |-> o.v] ELSE [s |-> o.v])
    ELSE JNull

\* struct Aps, fields in declaration order
ApsFields ==
    [alert |-> Field("alert", None),
     content_available |-> Field("content_available", Some(<<"content-available">>)),
     badge |-> Field("badge", None),
     sound |-> Field("sound", None),
     category |-> Field("category", None),
     thread_id |-> Field("thread_id", None)]

\* a slip: the flag normalised to 0 or 1 on the way out
SerializeAps_flag(a) ==
    JObj(<<[k |-> WireName(ApsFields.alert), v |-> JStr(a.alert)],
           [k |-> WireName(ApsFields.content_available),
            v |-> JNum(IF a.content_available = 0 THEN 0 ELSE 1)],
           [k |-> WireName(ApsFields.badge), v |-> SerializeOption(a.badge, "num")],
           [k |-> WireName(ApsFields.sound), v |-> SerializeOption(a.sound, "str")],
           [k |-> WireName(ApsFields.category), v |-> SerializeOption(a.category, "str")],
           [k |-> WireName(ApsFields.thread_id), v |-> SerializeOption(a.thread_id, "str")]>>)

SerializeAps(a) ==
    JObj(<<[k |-> WireName(ApsFields.alert), v |-> JStr(a.alert)],
           [k |-> WireName(ApsFields.content_available), v |-> JNum(a.content_available)],
           [k |-> WireName(ApsFields.badge), v |-> SerializeOption(a.badge, "num")],
           [k |-> WireName(ApsFields.sound), v |-> SerializeOption(a.sound, "str")],
           [k |-> WireName(ApsFields.category), v |-> SerializeOption(a.category, "str")],
           [k |-> WireName(ApsFields.thread_id), v |-> SerializeOption(a.thread_id, "str")]>>)

\* struct ApnsPayload
ApnsPayloadFields ==
    [aps |-> Field("aps", None), custom_key |-> Field("custom_key", None)]

SerializeApnsPayload(p) ==
    JObj(<<[k |-> WireName(ApnsPayloadFields.aps), v |-> SerializeAps(p.aps)],
           [k |-> WireName(ApnsPayloadFields.custom_key),
            v |-> SerializeOption(p.custom_key, "str")]>>)

\* serde_json::to_string(&payload)
to_string(p) == WriteValue(SerializeApnsPayload(p))

\* ------------------------------------------------------------ environment
\* What an EC key file can hold, as jsonwebtoken and ring tell it apart:
\* a PKCS#8 PEM of a P-256 key, a PEM of an EC key on another curve, and
\* bytes that are no PEM at all.
KeyFile(kind, material) == [kind |-> kind, material |-> material]

\* the files fs::read_to_string can be asked for; a path outside the domain
\* of FileSystem does not exist.
FileSystem ==
    [p \in {"AuthKey_A.p8", "AuthKey_B.p8", "AuthKey_P384.p8", "key.txt"} |->
        CASE p = "AuthKey_A.p8" -> KeyFile("ec_p256", "A")
          [] p = "AuthKey_B.p8" -> KeyFile("ec_p256", "B")
          [] p = "AuthKey_P384.p8" -> KeyFile("ec_p384", "C")
          [] p = "key.txt" -> KeyFile("not_pem", "D")]

\* fs::read_to_string(path)
read_to_string(path) ==
    IF path \in DOMAIN FileSystem THEN Some(FileSystem[path]) ELSE None

\* what the gateway, or the transport under it, can answer to one request:
\* a success, a rejection with its reason, or a failure to connect or to
\* agree on TLS
Response(status, body) == [kind |-> "response", status |-> status, body |-> body]
TransportErrors == {"connect", "tls"}
Answers ==
    {Response(200, <<>>),
     Response(403, <<"{", "\"", "reason", "\"", ":", "\"", "BadDeviceToken", "\"", "}">>)}
    \cup {[kind |-> "error", error |-> e] : e \in TransportErrors}

\* ------------------------------------------------------------ Result values
Ok(v) == [kind |-> "Ok", v |-> v]
Err(e) == [kind |-> "Err", e |-> e]
\* a panic unwinds out of the call: the caller gets no value
Panic(msg) == [kind |-> "Panic", msg |-> msg]

\* ------------------------------------------------------------------- token
\* a slip in the unit: the seconds rounded up instead of truncated
get_current_unix_time_rounded_up(now) ==
    IF now < 0 THEN Panic("Time went backwards")
    ELSE Ok((now + TicksPerSec - 1) \div TicksPerSec)

\* get_current_unix_time: whole seconds since the epoch; the clock counts
\* ticks, negative before the epoch (duration_since is then an Err and the
\* expect panics).
get_current_unix_time(now) ==
    IF now < 0 THEN Panic("Time went backwards") ELSE Ok(now \div TicksPerSec)

\* struct Claims and its derive(Serialize)
Claims(team_id, iat) == [iss |-> team_id, iat |-> iat]
SerializeClaims(c) ==
    JObj(<<[k |-> <<"iss">>, v |-> JStr(c.iss)], [k |-> <<"iat">>, v |-> JNum(c.iat)]>>)

\* Header { alg: ES256, kid: Some(key_id), ..Default::default() }: the
\* default header has typ = Some("JWT") and every other field None, and
\* jsonwebtoken skips the None fields when it writes the header.
Header(key_id) == [typ |-> Some(<<"JWT">>), alg |-> <<"ES256">>, kid |-> Some(key_id)]
SerializeHeader(h) ==
    JObj((IF h.typ.some THEN <<[k |-> <<"typ">>, v |-> JStr(h.typ.v)]>> ELSE <<>>)
         \o <<[k |-> <<"alg">>, v |-> JStr(h.alg)]>>
         \o (IF h.kid.some THEN <<[k |-> <<"kid">>, v |-> JStr(h.kid.v)]>> ELSE <<>>))

\* EncodingKey::from_ec_pem: the bytes must be a PEM of an EC private key
from_ec_pem(key) ==
    IF key.kind \in {"ec_p256", "ec_p384"} THEN Ok(key) ELSE Err("InvalidKeyFormat")

\* base64url of a text, kept as the text it decodes to
B64(t) == [b64 |-> t]

\* jwt::encode: header and claims as base64url JSON, signed with ES256.  The
\* signature is over both parts, by the key, with the per-signature random
\* value k of ECDSA.
encode(header, claims, key, k) ==
    IF key.kind # "ec_p256" THEN Err("InvalidEcdsaKey")
    ELSE LET h == B64(WriteValue(SerializeHeader(header)))
             c == B64(WriteValue(SerializeClaims(claims)))
         IN Ok(<<h, c, [sig |-> [key |-> key.material, over |-> <<h, c>>, k |-> k]]>>)

\* ----------------------------------------------------------------- request
\* a slip in the branch: both environments on the production host
url_for_one_host(prod, device_token) ==
    <<"https://api.push.apple.com/3/device/">> \o device_token

\* the endpoint of a send
url_for(prod, device_token) ==
    IF prod THEN <<"https://api.push.apple.com/3/device/">> \o device_token
    ELSE <<"https://api.sandbox.push.apple.com/3/device/">> \o device_token

\* HeaderValue::from_str: visible ASCII and tab only
InvalidHeaderPieces == {"\n", "\r"}
HeaderValueFromStr(s) ==
    IF \E i \in 1..Len(s) : s[i] \in InvalidHeaderPieces
    THEN Err("InvalidHeaderValue") ELSE Ok(s)

\* HeaderMap::insert: one value for a name, the last one inserted
Insert(map, name, value) == [n \in DOMAIN map \cup {name} |-> IF n = name THEN value ELSE map[n]]
EmptyHeaderMap == [n \in {} |-> <<>>]

\* a slip in the scheme's case, and the content type left out
headers_for_capital_bearer(topic, token) ==
    Insert(Insert(EmptyHeaderMap,
        "apns-topic", topic),
        "authorization", <<"Bearer ">> \o token)

\* the three inserts of send_push_notification; topic is a valid header value
headers_for(topic, token) ==
    Insert(Insert(Insert(EmptyHeaderMap,
        "apns-topic", topic),
        "authorization", <<"bearer ">> \o token),
        "content-type", <<"application/json">>)

\* client.post(&url).headers(headers).body(body)
Request(url, headers, body) ==
    [method |-> "POST", url |-> url, headers |-> headers, body |-> body]

\* as if error_for_status() were applied: a non-2xx response becomes an Err
send_await_error_for_status(answer) ==
    IF answer.kind = "response" /\ answer.status \in 200..299
    THEN Ok([status |-> answer.status, body |-> answer.body])
    ELSE Err("status")

\* .send().await: any HTTP response is Ok, whatever its status; only a
\* failure of the transport is an Err
send_await(answer) ==
    IF answer.kind = "response"
    THEN Ok([status |-> answer.status, body |-> answer.body])
    ELSE Err(answer.error)

\* ------------------------------------------------------------------ inputs
Arguments(paths, teams, kids, devices, topics, payloads, prods) ==
    [auth_key_path : paths, team_id : teams, key_id : kids, device_token : devices,
     topic : topics, payload : payloads, prod : prods]

Aps(alert, ca, badge, sound, category, thread_id) ==
    [alert |-> alert, content_available |-> ca, badge |-> badge, sound |-> sound,
     category |-> category, thread_id |-> thread_id]
ApnsPayload(aps, custom_key) == [aps |-> aps, custom_key |-> custom_key]

\* the payload of the crate's example and one with every option unset but badge
ExamplePayload ==
    ApnsPayload(Aps(<<"Hello, world!">>, 1, Some(1), Some(<<"default">>), None, None),
                Some(<<"custom_value">>))
BadgePayload == ApnsPayload(Aps(<<"Hi">>, 1, Some(3), None, None, None), None)

\* content_available is a u8, badge a u32
U8Values == {0, 1, 2, 255}
U32Values == {3, 2147483647}
OptionOf(S) == {None} \cup {Some(v) : v \in S}
Payloads ==
    {ApnsPayload(Aps(al, ca, b, s, cat, th), ck) :
        al \in {<<"Hi">>, <<"say ", "\"", "hi", "\"", "\n">>},
        ca \in U8Values,
        b \in OptionOf(U32Values),
        s \in OptionOf({<<"default">>}),
        cat \in OptionOf({<<"MSG">>}),
        th \in OptionOf({<<"thread-1">>}),
        ck \in OptionOf({<<"custom_value">>})}

KeyPaths == {"AuthKey_A.p8", "AuthKey_B.p8", "AuthKey_P384.p8", "key.txt", "missing.p8"}
Topics == {<<"com.example.app">>, <<"com.example.other">>, <<"com.example", "\n", "app">>}
DeviceTokens == {<<"abc123">>, <<"def456">>}

\* every identity and target, two payloads
SendArgs ==
    Arguments(KeyPaths, {<<"TEAMID1">>, <<"TEAMID2">>}, {<<"KEYID1">>, <<"KEYID2">>},
              DeviceTokens, Topics, {ExamplePayload, BadgePayload}, BOOLEAN)
\* one identity and target, every payload
CodecArgs ==
    Arguments({"AuthKey_A.p8"}, {<<"TEAMID1">>}, {<<"KEYID1">>}, {<<"abc123">>},
              {<<"com.example.app">>}, Payloads, {FALSE})
\* two callers that differ in every argument, the first with a good or a
\* bad key file
ConcArgs ==
    Arguments({"AuthKey_A.p8", "key.txt"}, {<<"TEAMID1">>}, {<<"KEYID1">>}, {<<"abc123">>},
              {<<"com.example.app">>}, {BadgePayload}, {FALSE})
    \cup Arguments({"AuthKey_B.p8"}, {<<"TEAMID2">>}, {<<"KEYID2">>}, {<<"def456">>},
              {<<"com.example.other">>}, {ExamplePayload}, {TRUE})

\* ------------------------------------------------------------------- state
Calls == 1..MaxCalls
\* a caller that sends one after another uses one slot
OneCaller == {1}

VARIABLES
    pc,       \* pc[c]: where call c of send_push_notification is
    args,     \* args[c]: its arguments
    key,      \* key[c]: the key file's contents (line 178)
    claims,   \* claims[c]: Claims (lines 181-184)
    token,    \* token[c]: the encoded token (lines 192-197)
    req,      \* req[c]: url, headers and body (lines 200-220)
    wire,     \* wire[c]: the requests the call has posted, in order
    reply,    \* reply[c]: what came back for the request
    outcome,  \* outcome[c]: how the call ended
    clock,    \* SystemTime::now(), in ticks since the epoch
    rng,      \* random values drawn by the signer so far
    last_iat, \* history: the iat of the Claims built last, if any
    started   \* sends started so far

vars == <<pc, args, key, claims, token, req, wire, reply, outcome, clock, rng, last_iat, started>>

Init ==
    /\ pc = [c \in Calls |-> "idle"]
    /\ args = [c \in Calls |-> None]
    /\ key = [c \in Calls |-> None]
    /\ claims = [c \in Calls |-> None]
    /\ token = [c \in Calls |-> None]
    /\ req = [c \in Calls |-> None]
    /\ wire = [c \in Calls |-> <<>>]
    /\ reply = [c \in Calls |-> None]
    /\ outcome = [c \in Calls |-> None]
    /\ clock \in {-1, 0}
    /\ rng = 0
    /\ last_iat = None
    /\ started = 0

\* the call ends at once with outcome o
Ends(c, o) ==
    /\ pc' = [pc EXCEPT ![c] = "done"]
    /\ outcome' = [outcome EXCEPT ![c] = Some(o)]

\* a caller calls send_push_notification(a); alone is whether it waits for
\* every other send to have returned
Call(c, a, alone) ==
    /\ pc[c] = "idle"
    /\ started < MaxSends
    /\ alone => \A d \in Calls : pc[d] = "idle"
    /\ pc' = [pc EXCEPT ![c] = "read_key"]
    /\ args' = [args EXCEPT ![c] = Some(a)]
    /\ started' = started + 1
    /\ UNCHANGED <<key, claims, token, req, wire, reply, outcome, clock, rng, last_iat>>

\* line 178: fs::read_to_string(auth_key_path).expect("Unable to read file")
ReadKey(c) ==
    /\ pc[c] = "read_key"
    /\ LET r == read_to_string(args[c].v.auth_key_path) IN
       IF r.some
       THEN /\ key' = [key EXCEPT ![c] = r]
            /\ pc' = [pc EXCEPT ![c] = "claims"]
            /\ UNCHANGED outcome
       ELSE /\ Ends(c, Panic("Unable to read file"))
            /\ UNCHANGED key
    /\ UNCHANGED <<args, claims, token, req, wire, reply, clock, rng, last_iat, started>>

\* lines 181-184: Claims { iss: team_id, iat: get_current_unix_time() }
MakeClaims(c) ==
    /\ pc[c] = "claims"
    /\ LET t == get_current_unix_time(clock) IN
       IF t.kind = "Ok"
       THEN /\ claims' = [claims EXCEPT ![c] = Some(Claims(args[c].v.team_id, t.v))]
            /\ last_iat' = Some(t.v)
            /\ pc' = [pc EXCEPT ![c] = "encode"]
            /\ UNCHANGED outcome
       ELSE /\ Ends(c, t)
            /\ UNCHANGED <<claims, last_iat>>
    /\ UNCHANGED <<args, key, token, req, wire, reply, clock, rng, started>>

\* a token kept in a place the calls share: the token another call in
\* progress has encoded is used instead of a new one
token_for_shared(c) ==
    IF \E d \in Calls \ {c} : token[d].some
    THEN Ok(token[CHOOSE d \in Calls \ {c} : token[d].some].v)
    ELSE LET k == from_ec_pem(key[c].v) IN
         IF k.kind = "Err" THEN Panic(k.e)
         ELSE LET t == encode(Header(args[c].v.key_id), claims[c].v, k.v, rng + 1) IN
              IF t.kind = "Err" THEN Panic(t.e) ELSE t

\* the token of call c: encode(&header, &claims, &from_ec_pem(key).unwrap()).unwrap()
token_for(c) ==
    LET k == from_ec_pem(key[c].v) IN
    IF k.kind = "Err" THEN Panic(k.e)
    ELSE LET t == encode(Header(args[c].v.key_id), claims[c].v, k.v, rng + 1) IN
         IF t.kind = "Err" THEN Panic(t.e) ELSE t

\* lines 186-197
EncodeToken(c) ==
    /\ pc[c] = "encode"
    /\ LET t == token_for(c) IN
       IF t.kind = "Ok"
       THEN /\ token' = [token EXCEPT ![c] = Some(t.v)]
            /\ rng' = rng + 1
            /\ pc' = [pc EXCEPT ![c] = "build"]
            /\ UNCHANGED outcome
       ELSE /\ Ends(c, t)
            /\ UNCHANGED <<token, rng>>
    /\ UNCHANGED <<args, key, claims, req, wire, reply, clock, last_iat, started>>

\* the request of call c (lines 200-220), or the panic of the topic's unwrap
request_for(c) ==
    LET a == args[c].v
        topic == HeaderValueFromStr(a.topic)
    IN IF topic.kind = "Err" THEN Panic(topic.e)
       ELSE Ok(Request(url_for(a.prod, a.device_token),
                       headers_for(topic.v, token[c].v),
                       to_string(a.payload)))

\* lines 200-220
BuildRequest(c) ==
    /\ pc[c] = "build"
    /\ LET r == request_for(c) IN
       IF r.kind = "Ok"
       THEN /\ req' = [req EXCEPT ![c] = Some(r.v)]
            /\ pc' = [pc EXCEPT ![c] = "post"]
            /\ UNCHANGED outcome
       ELSE /\ Ends(c, r)
            /\ UNCHANGED req
    /\ UNCHANGED <<args, key, claims, token, wire, reply, clock, rng, last_iat, started>>

\* lines 223-228: the client is built (built tells whether the builder
\* succeeded) and the request posted
Post(c) ==
    /\ pc[c] = "post"
    /\ \E built \in BOOLEAN :
        IF built
        THEN /\ wire' = [wire EXCEPT ![c] = Append(@, req[c].v)]
             /\ pc' = [pc EXCEPT ![c] = "await"]
             /\ UNCHANGED outcome
        ELSE /\ Ends(c, Panic("Failed to build client"))
             /\ UNCHANGED wire
    /\ UNCHANGED <<args, key, claims, token, req, reply, clock, rng, last_iat, started>>

\* a retry: after a transport failure or a non-2xx answer the request is
\* posted once more
Respond_retry(c) ==
    /\ pc[c] = "await"
    /\ \E answer \in Answers :
        /\ reply' = [reply EXCEPT ![c] = Some(answer)]
        /\ IF Len(wire[c]) < 2 /\ (answer.kind = "error" \/ answer.status \notin 200..299)
           THEN /\ pc' = [pc EXCEPT ![c] = "post"]
                /\ UNCHANGED outcome
           ELSE Ends(c, send_await(answer))
    /\ UNCHANGED <<args, key, claims, token, req, wire, clock, rng, last_iat, started>>

\* lines 228-230: the await resumes with the gateway's answer or the
\* transport's failure; `?` returns the Err, Ok(response) the response
Respond(c) ==
    /\ pc[c] = "await"
    /\ \E answer \in Answers :
        /\ reply' = [reply EXCEPT ![c] = Some(answer)]
        /\ Ends(c, send_await(answer))
    /\ UNCHANGED <<args, key, claims, token, req, wire, clock, rng, last_iat, started>>

\* the caller takes the outcome; every value of the call is dropped
Return(c) ==
    /\ pc[c] = "done"
    /\ pc' = [pc EXCEPT ![c] = "idle"]
    /\ args' = [args EXCEPT ![c] = None]
    /\ key' = [key EXCEPT ![c] = None]
    /\ claims' = [claims EXCEPT ![c] = None]
    /\ token' = [token EXCEPT ![c] = None]
    /\ req' = [req EXCEPT ![c] = None]
    /\ wire' = [wire EXCEPT ![c] = <<>>]
    /\ reply' = [reply EXCEPT ![c] = None]
    /\ outcome' = [outcome EXCEPT ![c] = None]
    /\ UNCHANGED <<clock, rng, last_iat, started>>

\* time passes
Tick ==
    /\ clock < MaxClock
    /\ clock' = clock + 1
    /\ UNCHANGED <<pc, args, key, claims, token, req, wire, reply, outcome, rng, last_iat, started>>

Step(c) ==
    \/ ReadKey(c)
    \/ MakeClaims(c)
    \/ EncodeToken(c)
    \/ BuildRequest(c)
    \/ Post(c)
    \/ Respond(c)
    \/ Return(c)

\* sends one after another, every identity and target
Next ==
    \/ \E c \in OneCaller : \E a \in SendArgs : Call(c, a, TRUE)
    \/ \E c \in Calls : Step(c)
    \/ Tick
Spec == Init /\ [][Next]_vars

\* sends one after another, every payload
NextCodec ==
    \/ \E c \in OneCaller : \E a \in CodecArgs : Call(c, a, TRUE)
    \/ \E c \in Calls : Step(c)
    \/ Tick
SpecCodec == Init /\ [][NextCodec]_vars

\* sends in progress together
NextConc ==
    \/ \E c \in Calls : \E a \in ConcArgs : Call(c, a, FALSE)
    \/ \E c \in Calls : Step(c)
    \/ Tick
SpecConc == Init /\ [][NextConc]_vars

\* ------------------------------------------------------------------ claims
\* What the properties below measure with: a text as one string, a JSON
\* reader, the expected endpoints, and the posted bodies read back.
RECURSIVE Join(_)
Join(s) == IF s = <<>> THEN "" ELSE Head(s) \o Join(Tail(s))

\* A reader of compact JSON text, the inverse of the writer above, used to
\* read back what a send wrote.
\* Each reader takes the text and a position and gives
\* [ok, val, next]: the value read and the position after it.
Fail == [ok |-> FALSE, val |-> JNull, next |-> 0]
IsDigit(p) == \E i \in 1..10 : DigitChar[i] = p
DigitVal(p) == (CHOOSE i \in 1..10 : DigitChar[i] = p) - 1

UnescapePiece(p) ==
    CASE p = "n" -> "\n"
      [] OTHER -> p

\* the pieces of a string from position i (after the opening quote)
RECURSIVE ReadStringBody(_, _, _)
ReadStringBody(t, i, acc) ==
    IF i > Len(t) THEN Fail
    ELSE IF t[i] = "\"" THEN [ok |-> TRUE, val |-> JStr(acc), next |-> i + 1]
    ELSE IF t[i] = "\\" THEN
        IF i + 1 > Len(t) THEN Fail
        ELSE ReadStringBody(t, i + 2, Append(acc, UnescapePiece(t[i + 1])))
    ELSE ReadStringBody(t, i + 1, Append(acc, t[i]))

RECURSIVE ReadNumber(_, _, _)
ReadNumber(t, i, acc) ==
    IF i <= Len(t) /\ IsDigit(t[i])
    THEN ReadNumber(t, i + 1, acc * 10 + DigitVal(t[i]))
    ELSE [ok |-> TRUE, val |-> JNum(acc), next |-> i]

RECURSIVE ReadValue(_, _)
RECURSIVE ReadMembers(_, _, _)
ReadValue(t, i) ==
    IF i > Len(t) THEN Fail
    ELSE IF t[i] = "null" THEN [ok |-> TRUE, val |-> JNull, next |-> i + 1]
    ELSE IF t[i] = "\"" THEN ReadStringBody(t, i + 1, <<>>)
    ELSE IF IsDigit(t[i]) THEN ReadNumber(t, i, 0)
    ELSE IF t[i] = "{" THEN
        IF i + 1 <= Len(t) /\ t[i + 1] = "}"
        THEN [ok |-> TRUE, val |-> JObj(<<>>), next |-> i + 2]
        ELSE ReadMembers(t, i + 1, <<>>)
    ELSE Fail
ReadMembers(t, i, acc) ==
    IF i > Len(t) \/ t[i] # "\"" THEN Fail
    ELSE LET k == ReadStringBody(t, i + 1, <<>>) IN
         IF ~k.ok \/ k.next > Len(t) \/ t[k.next] # ":" THEN Fail
         ELSE LET v == ReadValue(t, k.next + 1) IN
              IF ~v.ok \/ v.next > Len(t) THEN Fail
              ELSE LET m == Append(acc, [k |-> k.val.s, v |-> v.val]) IN
                   IF t[v.next] = "," THEN ReadMembers(t, v.next + 1, m)
                   ELSE IF t[v.next] = "}"
                        THEN [ok |-> TRUE, val |-> JObj(m), next |-> v.next + 1]
                        ELSE Fail

\* serde_json::from_str: one value spanning the whole text.
FromStr(t) ==
    LET r == ReadValue(t, 1) IN
    IF r.ok /\ r.next = Len(t) + 1 THEN Some(r.val) ELSE None

\* lookups in a parsed object
HasKey(obj, k) == \E i \in 1..Len(obj.m) : obj.m[i].k = k
Get(obj, k) == obj.m[CHOOSE i \in 1..Len(obj.m) : obj.m[i].k = k].v
Keys(obj) == {obj.m[i].k : i \in 1..Len(obj.m)}

ProdUrl(d) == "https://api.push.apple.com/3/device/" \o Join(d)
SandboxUrl(d) == "https://api.sandbox.push.apple.com/3/device/" \o Join(d)

IsObj(d) == d.some /\ d.v.t = "obj"
ApsOf(d) == Get(d.v, <<"aps">>)
HasAps(d) == IsObj(d) /\ HasKey(d.v, <<"aps">>) /\ ApsOf(d).t = "obj"

\* every body posted by call c satisfies P(payload, text, document)
EveryBody(c, P(_, _, _)) ==
    \A i \in 1..Len(wire[c]) :
        P(args[c].v.payload, wire[c][i].body, FromStr(wire[c][i].body))

Absent(obj, k, o) == ~o.some => ~HasKey(obj, k)
NullOrValue(obj, k, o, tag) ==
    /\ HasKey(obj, k)
    /\ Cardinality({i \in 1..Len(obj.m) : obj.m[i].k = k}) = 1
    /\ Get(obj, k) = (IF o.some THEN [t |-> tag] @@ (IF tag = "num" THEN [n |-> o.v] ELSE [s |-> o.v])
                      ELSE JNull)

\* ---- C1
\* C1: endpoint resolution is exhaustive and exclusive.  For every device
\* token d a production target resolves to https://api.push.apple.com/3/device/d
\* and a sandbox target to https://api.sandbox.push.apple.com/3/device/d, the
\* two differ, and every request a send builds or posts is a POST to the URL
\* of its own target and to no other.
C1_EndpointResolution ==
    /\ \A d \in DeviceTokens :
        /\ Join(url_for(TRUE, d)) = ProdUrl(d)
        /\ Join(url_for(FALSE, d)) = SandboxUrl(d)
        /\ Join(url_for(TRUE, d)) # Join(url_for(FALSE, d))
    /\ \A c \in Calls :
        LET a == args[c].v
            u == IF a.prod THEN ProdUrl(a.device_token) ELSE SandboxUrl(a.device_token)
        IN /\ req[c].some => Join(req[c].v.url) = u
           /\ \A i \in 1..Len(wire[c]) :
                /\ Join(wire[c][i].url) = u
                /\ wire[c][i].method = "POST"

\* C1 witness: a sandbox send to device abc123 has posted its request to
\* https://api.sandbox.push.apple.com/3/device/abc123.
C1_Witness ==
    \E c \in Calls :
        /\ wire[c] # <<>>
        /\ ~args[c].v.prod
        /\ args[c].v.device_token = <<"abc123">>
        /\ Join(wire[c][1].url) = "https://api.sandbox.push.apple.com/3/device/abc123"

\* ---- C2
\* C2: a send that comes to parse key bytes that are no PEM elliptic-curve
\* key ends with an error value returned to the caller, and posts nothing.
C2_MalformedKeyIsErrorValue ==
    \A c \in Calls :
        (pc[c] = "done" /\ key[c].some /\ key[c].v.kind = "not_pem" /\ claims[c].some)
            => /\ outcome[c].v.kind = "Err"
               /\ wire[c] = <<>>

\* ---- C3
\* C3: a non-2xx answer of the gateway is returned to the caller as the
\* response itself, with that status and that body, not as an error.
C3_Non2xxReturned ==
    \A c \in Calls :
        (pc[c] = "done" /\ reply[c].some /\ reply[c].v.kind = "response"
            /\ reply[c].v.status \notin 200..299)
            => /\ outcome[c].v.kind = "Ok"
               /\ outcome[c].v.v.status = reply[c].v.status
               /\ outcome[c].v.v.body = reply[c].v.body

\* C3 witness: a send has ended on a 403 with a reason in the body.
C3_Witness ==
    \E c \in Calls :
        /\ pc[c] = "done"
        /\ reply[c].some
        /\ reply[c].v.kind = "response"
        /\ reply[c].v.status = 403
        /\ reply[c].v.body # <<>>
        /\ outcome[c].v.kind = "Ok"

\* ---- C4
UnsetAbsent(p, text, d) ==
    /\ HasAps(d)
    /\ Absent(ApsOf(d), <<"badge">>, p.aps.badge)
    /\ Absent(ApsOf(d), <<"sound">>, p.aps.sound)
    /\ Absent(ApsOf(d), <<"category">>, p.aps.category)
    /\ Absent(ApsOf(d), <<"thread-id">>, p.aps.thread_id)
    /\ Absent(ApsOf(d), <<"thread_id">>, p.aps.thread_id)
    /\ p = BadgePayload =>
        Join(text) = "{\"aps\":{\"alert\":\"Hi\",\"content-available\":1,\"badge\":3}}"

UnsetNull(p, text, d) ==
    /\ HasAps(d)
    /\ NullOrValue(ApsOf(d), <<"badge">>, p.aps.badge, "num")
    /\ NullOrValue(ApsOf(d), <<"sound">>, p.aps.sound, "str")
    /\ NullOrValue(ApsOf(d), <<"category">>, p.aps.category, "str")
    /\ NullOrValue(ApsOf(d), <<"thread_id">>, p.aps.thread_id, "str")
    /\ NullOrValue(d.v, <<"custom_key">>, p.custom_key, "str")
    /\ Get(ApsOf(d), <<"alert">>) = JStr(p.aps.alert)
    /\ p = BadgePayload =>
        Join(text) = "{\"aps\":{\"alert\":\"Hi\",\"content-available\":1,\"badge\":3,\"sound\":null,\"category\":null,\"thread_id\":null},\"custom_key\":null}"

\* C4 as stated: an unset badge, sound, category or thread identifier has no
\* key in the encoded body, and the payload with alert "Hi", flag 1, badge 3
\* and nothing else set encodes to exactly
\* {"aps":{"alert":"Hi","content-available":1,"badge":3}}.
C4_UnsetFieldsAbsent == \A c \in Calls : EveryBody(c, UnsetAbsent)

\* C4 amended: every optional field has its key in the encoded body, with
\* the value null when the field is unset and the field's value when it is
\* set; the payload with alert "Hi", flag 1, badge 3 and nothing else set
\* encodes to exactly {"aps":{"alert":"Hi","content-available":1,"badge":3,
\* "sound":null,"category":null,"thread_id":null},"custom_key":null}.
C4_UnsetFieldsNull == \A c \in Calls : EveryBody(c, UnsetNull)

\* C4 witness: the payload with only alert, flag and badge has been posted.
C4_Witness ==
    \E c \in Calls :
        /\ wire[c] # <<>>
        /\ args[c].v.payload = BadgePayload
        /\ HasAps(FromStr(wire[c][1].body))

\* ---- C5
WireNames(p, text, d) ==
    /\ HasAps(d)
    /\ HasKey(ApsOf(d), <<"content-available">>)
    /\ p.aps.thread_id.some => HasKey(ApsOf(d), <<"thread-id">>)
    /\ <<"content_available">> \notin Keys(ApsOf(d))
    /\ <<"thread_id">> \notin Keys(ApsOf(d))

\* C5: the keys of the encoded body are the gateway's names: aps,
\* content-available and, when the thread identifier is set, thread-id; the
\* field names content_available and thread_id are never keys.
C5_WireNames == \A c \in Calls : EveryBody(c, WireNames)

\* ---- C6
FlagZeroOrOne(p, text, d) ==
    /\ HasAps(d)
    /\ HasKey(ApsOf(d), <<"content-available">>)
    /\ Get(ApsOf(d), <<"content-available">>) = JNum(p.aps.content_available)
    /\ Get(ApsOf(d), <<"content-available">>).n \in {0, 1}

FlagRoundTrip(p, text, d) ==
    /\ HasAps(d)
    /\ HasKey(ApsOf(d), <<"content-available">>)
    /\ Get(ApsOf(d), <<"content-available">>) = JNum(p.aps.content_available)
    /\ p.aps.content_available \in {0, 1}
        => Get(ApsOf(d), <<"content-available">>).n \in {0, 1}

\* C6 as stated: read back, content-available is 0 or 1 and is the input flag.
C6_FlagZeroOrOne == \A c \in Calls : EveryBody(c, FlagZeroOrOne)

\* C6 amended: read back, content-available is a number equal to the input
\* content_available, whatever u8 value that is (0 or 1 when the input is).
C6_RoundTrip == \A c \in Calls : EveryBody(c, FlagRoundTrip)

\* C6 witness: a payload with content_available 255 has been posted and
\* reads back as a document.
C6_Witness ==
    \E c \in Calls :
        /\ wire[c] # <<>>
        /\ args[c].v.payload.aps.content_available = 255
        /\ HasAps(FromStr(wire[c][1].body))

\* ---- C7
HeadersAsClaimed(c, h) ==
    /\ DOMAIN h = {"apns-topic", "authorization", "content-type"}
    /\ h["apns-topic"] = args[c].v.topic
    /\ token[c].some
    /\ Len(h["authorization"]) = 1 + Len(token[c].v)
    /\ Head(h["authorization"]) = "bearer "
    /\ Tail(h["authorization"]) = token[c].v
    /\ Join(h["content-type"]) = "application/json"

\* C7: every request a send builds or posts carries exactly three headers:
\* apns-topic with the caller's topic, authorization with "bearer " and then
\* the token encoded in this send, content-type with application/json.
C7_ThreeHeaders ==
    \A c \in Calls :
        /\ req[c].some => HeadersAsClaimed(c, req[c].v.headers)
        /\ \A i \in 1..Len(wire[c]) : HeadersAsClaimed(c, wire[c][i].headers)

\* C7 witness: a request is on the wire with topic com.example.app.
C7_Witness ==
    \E c \in Calls :
        /\ pc[c] = "await"
        /\ wire[c] # <<>>
        /\ Join(wire[c][1].headers["apns-topic"]) = "com.example.app"
        /\ token[c].some

\* ---- C8
TokenAsClaimed(c) ==
    LET t == token[c].v
        hdr == FromStr(t[1].b64)
        body == FromStr(t[2].b64)
    IN /\ Len(t) = 3
       /\ hdr.some
       /\ hdr.v.t = "obj"
       /\ HasKey(hdr.v, <<"alg">>)
       /\ Get(hdr.v, <<"alg">>) = JStr(<<"ES256">>)
       /\ HasKey(hdr.v, <<"kid">>)
       /\ Get(hdr.v, <<"kid">>) = JStr(args[c].v.key_id)
       /\ body.some
       /\ body.v.t = "obj"
       /\ Len(body.v.m) = 2
       /\ Keys(body.v) = {<<"iss">>, <<"iat">>}
       /\ Get(body.v, <<"iss">>) = JStr(args[c].v.team_id)
       /\ claims[c].some
       /\ Get(body.v, <<"iat">>) = JNum(claims[c].v.iat)
       /\ t[3].sig.over = <<t[1], t[2]>>

\* the step that builds the Claims: iat is the whole seconds of the clock,
\* and not before the iat built last
IatAsClaimed(c) ==
    (~claims[c].some /\ claims'[c].some) =>
        LET iat == claims'[c].v.iat IN
        /\ iat * TicksPerSec <= clock
        /\ clock < (iat + 1) * TicksPerSec
        /\ last_iat.some => last_iat.v <= iat

\* the step that encodes the token: signed anew, the token of no other call
TokenFresh(c) ==
    (~token[c].some /\ token'[c].some) =>
        /\ token'[c].v[3].sig.k > rng
        /\ \A d \in Calls : token[d].some => token'[c].v # token[d].v

\* C8: the token of a send decodes to a header with alg ES256 and the
\* caller's key id and to a body with exactly the claims iss, the caller's
\* team id, and iat, the whole seconds the clock showed when the send read it;
\* from one send to the next iat never decreases, and a token is freshly
\* signed, never the token of an earlier send.
C8_Token ==
    /\ [](\A c \in Calls : token[c].some => TokenAsClaimed(c))
    /\ [][\A c \in Calls : IatAsClaimed(c) /\ TokenFresh(c)]_vars

\* C8 witness: a second send has its token, with an iat later than zero,
\* for team TEAMID1 and key KEYID1.
C8_Witness ==
    \E c \in Calls :
        /\ token[c].some
        /\ started = 2
        /\ rng = 2
        /\ claims[c].v.iat > 0
        /\ args[c].v.team_id = <<"TEAMID1">>
        /\ args[c].v.key_id = <<"KEYID1">>

\* ---- C9
C9_State(c) ==
    /\ Len(wire[c]) <= 1
    /\ (pc[c] = "done" /\ reply[c].some) => Len(wire[c]) = 1
    /\ (pc[c] = "done" /\ ~reply[c].some) => wire[c] = <<>>
    /\ (pc[c] = "done" /\ outcome[c].v.kind = "Panic") => wire[c] = <<>>
    /\ (pc[c] = "done" /\ outcome[c].v.kind = "Err") =>
            (reply[c].some /\ reply[c].v.kind = "error")
    /\ reply[c].some => pc[c] = "done"

C9_Step(c) ==
    pc[c] = "done" => (pc'[c] \in {"done", "idle"} /\ wire'[c] \in {wire[c], <<>>})

\* C9: a send posts at most one request.  A send that ends on a transport
\* failure or on any answer has posted exactly one and posts no more; a send
\* that ends before the post has posted none.
C9_AtMostOnePost ==
    /\ [](\A c \in Calls : C9_State(c))
    /\ [][\A c \in Calls : C9_Step(c)]_vars

\* C9 witness: a send has ended on a transport failure after its one post.
C9_Witness ==
    \E c \in Calls :
        /\ pc[c] = "done"
        /\ outcome[c].v.kind = "Err"
        /\ Len(wire[c]) = 1

\* ---- C10
\* request r of call c is built from the arguments of c
OwnRequest(c, r) ==
    LET a == args[c].v
        t == Tail(r.headers["authorization"])
        hdr == FromStr(t[1].b64)
        body == FromStr(t[2].b64)
        doc == FromStr(r.body)
    IN /\ Join(r.url) = (IF a.prod THEN ProdUrl(a.device_token) ELSE SandboxUrl(a.device_token))
       /\ r.headers["apns-topic"] = a.topic
       /\ Len(t) = 3
       /\ IsObj(hdr)
       /\ Get(hdr.v, <<"kid">>) = JStr(a.key_id)
       /\ IsObj(body)
       /\ Get(body.v, <<"iss">>) = JStr(a.team_id)
       /\ Get(body.v, <<"iat">>) = JNum(claims[c].v.iat)
       /\ t[3].sig.key = FileSystem[a.auth_key_path].material
       /\ \A d \in Calls \ {c} : token[d].some => t # token[d].v
       /\ HasAps(doc)
       /\ LET aps == ApsOf(doc) IN
          /\ Get(aps, <<"alert">>) = JStr(a.payload.aps.alert)
          /\ NullOrValue(aps, <<"badge">>, a.payload.aps.badge, "num")
          /\ NullOrValue(doc.v, <<"custom_key">>, a.payload.custom_key, "str")

\* how call c ends when nothing but its own arguments, the clock it read,
\* its own client and the answer to its own request decide it
AloneOutcome(c) ==
    LET a == args[c].v IN
    IF a.auth_key_path \notin DOMAIN FileSystem THEN Panic("Unable to read file")
    ELSE IF ~claims[c].some THEN Panic("Time went backwards")
    ELSE IF FileSystem[a.auth_key_path].kind = "not_pem" THEN Panic("InvalidKeyFormat")
    ELSE IF FileSystem[a.auth_key_path].kind # "ec_p256" THEN Panic("InvalidEcdsaKey")
    ELSE IF \E i \in 1..Len(a.topic) : a.topic[i] \in {"\n", "\r"}
         THEN Panic("InvalidHeaderValue")
    ELSE IF ~reply[c].some THEN Panic("Failed to build client")
    ELSE IF reply[c].v.kind = "response"
         THEN Ok([status |-> reply[c].v.status, body |-> reply[c].v.body])
    ELSE Err(reply[c].v.error)

\* a request is looked at when it is built and when it is posted; from then
\* on it stays what it was
C10_State(c) ==
    /\ pc[c] = "post" => OwnRequest(c, req[c].v)
    /\ pc[c] = "await" => (Len(wire[c]) = 1 /\ OwnRequest(c, wire[c][1]))
    /\ pc[c] = "done" => outcome[c] = Some(AloneOutcome(c))

C10_Step(c) ==
    pc[c] \in {"await", "done"} =>
        (pc'[c] = "idle" \/ (wire'[c] = wire[c] /\ token'[c] = token[c]))

\* C10: sends in progress together share nothing.  Every request of a call
\* is built from that call's own arguments (its URL, topic, token and body),
\* no token is the token of another call in progress, and the call ends as
\* it would alone: its outcome is decided by its own arguments, the clock it
\* read, its own client and the answer to its own request.
C10_NoSharedState ==
    /\ [](\A c \in Calls : C10_State(c))
    /\ [][\A c \in Calls : C10_Step(c)]_vars

\* C10 witness: two calls with different arguments have their requests on
\* the wire at the same time.
C10_Witness ==
    \E c, d \in Calls :
        /\ c # d
        /\ pc[c] = "await"
        /\ pc[d] = "await"
        /\ wire[c] # <<>>
        /\ wire[d] # <<>>
        /\ args[c].v.team_id # args[d].v.team_id
        /\ args[c].v.device_token # args[d].v.device_token

====
